---- MODULE Spec2Model ----
(***************************************************************************)
(* PythonToSMTConverter (src/py2smt/PythonToSMTConverter.py): a converter  *)
(* object holding return_type, and its three methods remove_comments,      *)
(* convert and python_to_smt.                                              *)
(*                                                                         *)
(* Python strings are sequences of one-character strings, so that lower(), *)
(* split(), join() and the f-string templates are computed character by    *)
(* character.  An AST node is a record tagged by its class name (kind).    *)
(* A call's outcome is a record [k, s]: k = "str" with the returned text   *)
(* s, k = "None" when the method falls off its end and returns None,       *)
(* k = "TypeError" / "SyntaxError" when the call raises.                   *)
(***************************************************************************)
EXTENDS Integers, Sequences, FiniteSets, TLC

VARIABLES return_type, call, py_code, node, result

vars == <<return_type, call, py_code, node, result>>

(***************************************************************************)
(* Bounds of the explored inputs.                                          *)
(***************************************************************************)
MaxExprDepth == 2
MaxDepth == 4
MaxLexemes == 3

(***************************************************************************)
(* Outcomes of a call.                                                     *)
(***************************************************************************)
Ok(s) == [k |-> "str", s |-> s]

ReturnsNone == [k |-> "None", s |-> <<>>]

Raises(e) == [k |-> e, s |-> <<>>]

NoCall == [k |-> "nocall", s |-> <<>>]

IsRaise(r) == r.k \in {"TypeError", "SyntaxError"}

(***************************************************************************)
(* Python string primitives.                                               *)
(***************************************************************************)
RECURSIVE Concat(_)
Concat(ss) == IF ss = <<>> THEN <<>> ELSE Head(ss) \o Concat(Tail(ss))

RECURSIVE Join(_, _)
Join(sep, ss) ==
    IF ss = <<>> THEN <<>>
    ELSE IF Len(ss) = 1 THEN ss[1]
    ELSE ss[1] \o sep \o Join(sep, Tail(ss))

Upper == <<"A", "B", "C", "D", "E", "F", "G", "H", "I", "J", "K", "L", "M",
           "N", "O", "P", "Q", "R", "S", "T", "U", "V", "W", "X", "Y", "Z">>

Lower == <<"a", "b", "c", "d", "e", "f", "g", "h", "i", "j", "k", "l", "m",
           "n", "o", "p", "q", "r", "s", "t", "u", "v", "w", "x", "y", "z">>

LowerChar(c) ==
    IF \E i \in 1..26 : Upper[i] = c
    THEN Lower[CHOOSE i \in 1..26 : Upper[i] = c]
    ELSE c

lower(s) == [i \in 1..Len(s) |-> LowerChar(s[i])]

Digits == <<"0", "1", "2", "3", "4", "5", "6", "7", "8", "9">>

RECURSIVE NatStr(_)
NatStr(n) == IF n < 10 THEN <<Digits[n + 1]>>
             ELSE NatStr(n \div 10) \o <<Digits[(n % 10) + 1]>>

\* str(n) of an int
IntStr(n) == IF n < 0 THEN <<"-">> \o NatStr(0 - n) ELSE NatStr(n)

\* str(value) of a NameConstant's value
ConstStr(v) ==
    CASE v = "True" -> <<"T", "r", "u", "e">>
      [] v = "False" -> <<"F", "a", "l", "s", "e">>
      [] OTHER -> <<"N", "o", "n", "e">>

\* type(node).__name__
TypeName(kind) ==
    CASE kind = "For" -> <<"F", "o", "r">>
      [] kind = "Call" -> <<"C", "a", "l", "l">>
      [] kind = "Pow" -> <<"P", "o", "w">>
      [] kind = "In" -> <<"I", "n">>
      [] kind = "NotEq" -> <<"N", "o", "t", "E", "q">>
      [] kind = "UAdd" -> <<"U", "A", "d", "d">>
      [] kind = "Invert" -> <<"I", "n", "v", "e", "r", "t">>
      [] kind = "BitAnd" -> <<"B", "i", "t", "A", "n", "d">>
      [] kind = "And" -> <<"A", "n", "d">>
      [] kind = "Or" -> <<"O", "r">>
      [] kind = "Not" -> <<"N", "o", "t">>
      [] kind = "USub" -> <<"U", "S", "u", "b">>
      [] OTHER -> <<"?">>

\* an f-string's {value}: str(None) is 'None'
Fmt(r) == IF r.k = "None" THEN <<"N", "o", "n", "e">> ELSE r.s

\* an f-string over already evaluated parts: a part that raised propagates
FString(parts) ==
    IF \E i \in 1..Len(parts) : IsRaise(parts[i])
    THEN Raises("TypeError")
    ELSE Ok(Concat([i \in 1..Len(parts) |-> Fmt(parts[i])]))

\* sep.join(convert(n) for n in ...): an item that raised propagates, and a
\* None item makes join raise TypeError
JoinResults(sep, rs) ==
    IF \E i \in 1..Len(rs) : IsRaise(rs[i]) \/ rs[i].k = "None"
    THEN Raises("TypeError")
    ELSE Ok(Join(sep, [i \in 1..Len(rs) |-> rs[i].s]))

SP == Ok(<<" ">>)

RP == Ok(<<")">>)

(***************************************************************************)
(* convert: one operator per isinstance branch, in the order of the code.  *)
(***************************************************************************)
RECURSIVE convert(_)

ConvertAll(ns) == [i \in 1..Len(ns) |-> convert(ns[i])]

convert_Module(n) == JoinResults(<<"\n">>, ConvertAll(n.body))

\* convert_FunctionDef leaving the sort out of each parameter
convert_FunctionDef_Untyped(n) ==
    LET args == Join(<<" ">>, [i \in 1..Len(n.args) |-> <<"(">> \o n.args[i] \o <<")">>])
        body == JoinResults(<<"\n">>, ConvertAll(n.body))
    IN  FString(<<Ok(<<"(", "d", "e", "f", "i", "n", "e", "-", "f", "u", "n", " ">>),
                  Ok(n.name), Ok(<<" ", "(">>), Ok(args), Ok(<<")", " ">>),
                  Ok(return_type), SP, body, RP>>)

convert_FunctionDef(n) ==
    LET args == Join(<<" ">>, [i \in 1..Len(n.args) |->
                    <<"(">> \o n.args[i] \o <<" ">> \o return_type \o <<")">>])
        body == JoinResults(<<"\n">>, ConvertAll(n.body))
    IN  FString(<<Ok(<<"(", "d", "e", "f", "i", "n", "e", "-", "f", "u", "n", " ">>),
                  Ok(n.name), Ok(<<" ", "(">>), Ok(args), Ok(<<")", " ">>),
                  Ok(return_type), SP, body, RP>>)

convert_Assign(n) ==
    LET targets == JoinResults(<<" ">>, ConvertAll(n.targets))
        value == convert(n.value)
    IN  FString(<<Ok(<<"(", "l", "e", "t", " ">>), targets, SP, value, RP>>)

convert_BinOp(n) ==
    LET left == convert(n.left)
        o == convert(n.op)
        right == convert(n.right)
    IN  FString(<<Ok(<<"(">>), o, SP, left, SP, right, RP>>)

\* convert_Compare keeping only the first comparator of a chain with NotEq
convert_Compare_FirstOnly(n) ==
    LET left == convert(n.left)
        ops == JoinResults(<<" ">>, ConvertAll(n.ops))
        comparators == JoinResults(<<" ">>, ConvertAll(n.comparators))
    IN  IF IsRaise(left) \/ IsRaise(ops) \/ IsRaise(comparators)
        THEN Raises("TypeError")
        ELSE IF \E i \in 1..Len(n.ops) : n.ops[i].kind = "NotEq"
        THEN FString(<<Ok(<<"(", "n", "o", "t", " ", "(", "=", " ">>), left, SP,
                       convert(n.comparators[1]), Ok(<<")", ")">>)>>)
        ELSE FString(<<Ok(<<"(">>), ops, SP, left, SP, comparators, RP>>)

convert_Compare(n) ==
    LET left == convert(n.left)
        ops == JoinResults(<<" ">>, ConvertAll(n.ops))
        comparators == JoinResults(<<" ">>, ConvertAll(n.comparators))
    IN  IF IsRaise(left) \/ IsRaise(ops) \/ IsRaise(comparators)
        THEN Raises("TypeError")
        ELSE IF \E i \in 1..Len(n.ops) : n.ops[i].kind = "NotEq"
        THEN FString(<<Ok(<<"(", "n", "o", "t", " ", "(", "=", " ">>), left, SP,
                       comparators, Ok(<<")", ")">>)>>)
        ELSE FString(<<Ok(<<"(">>), ops, SP, left, SP, comparators, RP>>)

\* convert_If closing the ite before the orelse branch
convert_If_ElseOutside(n) ==
    LET test == convert(n.test)
        body == JoinResults(<<"\n">>, ConvertAll(n.body))
        orelse == JoinResults(<<"\n">>, ConvertAll(n.orelse))
    IN  FString(<<Ok(<<"(", "i", "t", "e", " ">>), test, SP, body, RP, SP, orelse>>)

\* convert_If writing nil for an empty orelse
convert_If_NilElse(n) ==
    LET test == convert(n.test)
        body == JoinResults(<<"\n">>, ConvertAll(n.body))
        orelse == IF n.orelse = <<>> THEN Ok(<<"n", "i", "l">>)
                  ELSE JoinResults(<<"\n">>, ConvertAll(n.orelse))
    IN  FString(<<Ok(<<"(", "i", "t", "e", " ">>), test, SP, body, SP, orelse, RP>>)

convert_If(n) ==
    LET test == convert(n.test)
        body == JoinResults(<<"\n">>, ConvertAll(n.body))
        orelse == JoinResults(<<"\n">>, ConvertAll(n.orelse))
    IN  FString(<<Ok(<<"(", "i", "t", "e", " ">>), test, SP, body, SP, orelse, RP>>)

convert_Expr(n) == convert(n.value)

convert_Name(n) ==
    IF lower(n.id) = <<"t", "r", "u", "e">> THEN Ok(<<"t", "r", "u", "e">>)
    ELSE IF lower(n.id) = <<"f", "a", "l", "s", "e">> THEN Ok(<<"f", "a", "l", "s", "e">>)
    ELSE Ok(n.id)

convert_NameConstant(n) == Ok(ConstStr(n.value))

convert_Num(n) == Ok(IntStr(n.n))

convert_Str(n) == Ok(<<"\"">> \o n.s \o <<"\"">>)

convert_BoolOp(n) ==
    LET o == IF n.op.kind = "And" THEN <<"a", "n", "d">>
             ELSE IF n.op.kind = "Or" THEN <<"o", "r">>
             ELSE <<"U", "N", "K", "N", "O", "W", "N", "_", "T", "Y", "P", "E", "_",
                    "B", "o", "o", "l", "O", "p", "_">> \o TypeName(n.op.kind)
        values == JoinResults(<<" ">>, ConvertAll(n.values))
    IN  FString(<<Ok(<<"(">>), Ok(o), SP, values, RP>>)

\* convert_UnaryOp leaving the negation open
convert_UnaryOp_Unclosed(n) ==
    IF n.op.kind = "Not"
    THEN FString(<<Ok(<<"(", "n", "o", "t", " ">>), convert(n.operand), RP>>)
    ELSE IF n.op.kind = "USub"
    THEN FString(<<Ok(<<"(", "-", " ">>), convert(n.operand)>>)
    ELSE ReturnsNone

convert_UnaryOp(n) ==
    IF n.op.kind = "Not"
    THEN FString(<<Ok(<<"(", "n", "o", "t", " ">>), convert(n.operand), RP>>)
    ELSE IF n.op.kind = "USub"
    THEN FString(<<Ok(<<"(", "-", " ">>), convert(n.operand), RP>>)
    ELSE ReturnsNone

convert_Return(n) ==
    IF n.value.kind # "NoneType" THEN convert(n.value) ELSE Ok(<<"n", "i", "l">>)

convert_Unknown(n) ==
    Ok(<<"U", "N", "K", "N", "O", "W", "N", "_", "T", "Y", "P", "E", "_">>
       \o TypeName(n.kind))

convert(n) ==
    CASE n.kind = "NoneType" -> Ok(<<>>)
      [] n.kind = "Module" -> convert_Module(n)
      [] n.kind = "FunctionDef" -> convert_FunctionDef(n)
      [] n.kind = "Assign" -> convert_Assign(n)
      [] n.kind = "BinOp" -> convert_BinOp(n)
      [] n.kind = "Compare" -> convert_Compare(n)
      [] n.kind = "If" -> convert_If(n)
      [] n.kind = "Expr" -> convert_Expr(n)
      [] n.kind = "Name" -> convert_Name(n)
      [] n.kind = "NameConstant" -> convert_NameConstant(n)
      [] n.kind = "Num" -> convert_Num(n)
      [] n.kind = "Str" -> convert_Str(n)
      [] n.kind = "Add" -> Ok(<<"+">>)
      [] n.kind = "Sub" -> Ok(<<"-">>)
      [] n.kind = "Mult" -> Ok(<<"*">>)
      [] n.kind = "Div" -> Ok(<<"d", "i", "v">>)
      [] n.kind = "Mod" -> Ok(<<"m", "o", "d">>)
      [] n.kind = "BoolOp" -> convert_BoolOp(n)
      [] n.kind = "UnaryOp" -> convert_UnaryOp(n)
      [] n.kind = "Eq" -> Ok(<<"=">>)
      [] n.kind = "Lt" -> Ok(<<"<">>)
      [] n.kind = "LtE" -> Ok(<<"<", "=">>)
      [] n.kind = "Gt" -> Ok(<<">">>)
      [] n.kind = "GtE" -> Ok(<<">", "=">>)
      [] n.kind = "Return" -> convert_Return(n)
      [] OTHER -> convert_Unknown(n)

(***************************************************************************)
(* remove_comments                                                         *)
(***************************************************************************)
SubSeqFrom(s, i) == SubSeq(s, i, Len(s))

\* the least index of c in s, 0 when there is none
Find(s, c) ==
    IF \E i \in 1..Len(s) : s[i] = c
    THEN CHOOSE i \in 1..Len(s) : s[i] = c /\ \A j \in 1..(i - 1) : s[j] # c
    ELSE 0

IsTripleAt(s, i) ==
    i + 2 <= Len(s) /\ s[i] = "\"" /\ s[i + 1] = "\"" /\ s[i + 2] = "\""

\* the least index at or after from where """ starts in s, 0 when there is none
FindTriple(s, from) ==
    IF \E i \in from..Len(s) : IsTripleAt(s, i)
    THEN CHOOSE i \in from..Len(s) :
            IsTripleAt(s, i) /\ \A j \in from..(i - 1) : ~IsTripleAt(s, j)
    ELSE 0

\* s.split('\n')
RECURSIVE SplitLines(_)
SplitLines(s) ==
    LET i == Find(s, "\n")
    IN  IF i = 0 THEN <<s>>
        ELSE <<SubSeq(s, 1, i - 1)>> \o SplitLines(SubSeqFrom(s, i + 1))

\* re.split(r'#', line, 1)[0]
BeforeSharp(line) ==
    LET i == Find(line, "#")
    IN  IF i = 0 THEN line ELSE SubSeq(line, 1, i - 1)

\* s.split('"""')
RECURSIVE SplitTriple(_)
SplitTriple(s) ==
    LET i == FindTriple(s, 1)
    IN  IF i = 0 THEN <<s>>
        ELSE <<SubSeq(s, 1, i - 1)>> \o SplitTriple(SubSeqFrom(s, i + 3))

remove_comments(code) ==
    LET lines == SplitLines(code)
        lines_without_sharp_comments ==
            [i \in 1..Len(lines) |-> BeforeSharp(lines[i])]
        code_without_comments == Join(<<"\n">>, lines_without_sharp_comments)
        code_lines == SplitTriple(code_without_comments)
        \* code_lines[i] of the code is code_lines[i + 1] here
        code_without_all_comments ==
            [i \in 1..Len(code_lines) |->
                IF (i - 1) % 2 = 0 THEN code_lines[i] ELSE <<>>]
    IN  Concat(code_without_all_comments)

(***************************************************************************)
(* ast.parse, on the texts the model feeds python_to_smt: identifiers,     *)
(* double-quoted and triple-quoted string literals and line breaks.  A     *)
(* logical line is one identifier (True, False and None are constants) or  *)
(* a run of adjacent string literals, which Python concatenates; anything  *)
(* else, and an unterminated literal, is a SyntaxError.                    *)
(***************************************************************************)
NoneNode == [kind |-> "NoneType"]

Name(id) == [kind |-> "Name", id |-> id]

NameConstant(v) == [kind |-> "NameConstant", value |-> v]

Num(n) == [kind |-> "Num", n |-> n]

Str(s) == [kind |-> "Str", s |-> s]

Expr(v) == [kind |-> "Expr", value |-> v]

Module(body) == [kind |-> "Module", body |-> body]

IsNameChar(c) == c \notin {"\"", "\n", "#"}

\* the length of the longest prefix of s made of identifier characters
RECURSIVE NameLen(_)
NameLen(s) ==
    IF s = <<>> \/ ~IsNameChar(s[1]) THEN 0 ELSE 1 + NameLen(Tail(s))

RECURSIVE Lex(_)
Lex(s) ==
    IF s = <<>> THEN <<>>
    ELSE IF s[1] = "\n" THEN <<[t |-> "NEWLINE", v |-> <<>>]>> \o Lex(Tail(s))
    ELSE IF s[1] = "#" THEN
        LET nl == Find(s, "\n")
        IN  IF nl = 0 THEN <<>> ELSE Lex(SubSeqFrom(s, nl))
    ELSE IF IsTripleAt(s, 1) THEN
        LET j == FindTriple(s, 4)
        IN  IF j = 0 THEN <<[t |-> "ERROR", v |-> <<>>]>>
            ELSE <<[t |-> "STRING", v |-> SubSeq(s, 4, j - 1)]>>
                 \o Lex(SubSeqFrom(s, j + 3))
    ELSE IF s[1] = "\"" THEN
        LET rest == Tail(s)
            j == Find(rest, "\"")
            nl == Find(rest, "\n")
        IN  IF j = 0 \/ (nl # 0 /\ nl < j) THEN <<[t |-> "ERROR", v |-> <<>>]>>
            ELSE <<[t |-> "STRING", v |-> SubSeq(rest, 1, j - 1)]>>
                 \o Lex(SubSeqFrom(rest, j + 1))
    ELSE <<[t |-> "NAME", v |-> SubSeq(s, 1, NameLen(s))]>>
         \o Lex(SubSeqFrom(s, NameLen(s) + 1))

\* the tokens up to the first NEWLINE
RECURSIVE LogicalLine(_)
LogicalLine(toks) ==
    IF toks = <<>> \/ toks[1].t = "NEWLINE" THEN <<>>
    ELSE <<toks[1]>> \o LogicalLine(Tail(toks))

ParseAtom(id) ==
    IF id = <<"T", "r", "u", "e">> THEN NameConstant("True")
    ELSE IF id = <<"F", "a", "l", "s", "e">> THEN NameConstant("False")
    ELSE IF id = <<"N", "o", "n", "e">> THEN NameConstant("None")
    ELSE Name(id)

\* one expression statement, or a SyntaxError marker
ParseLine(line) ==
    IF Len(line) = 1 /\ line[1].t = "NAME" THEN <<Expr(ParseAtom(line[1].v))>>
    ELSE IF \A i \in 1..Len(line) : line[i].t = "STRING"
    THEN <<Expr(Str(Concat([i \in 1..Len(line) |-> line[i].v])))>>
    ELSE <<[kind |-> "SyntaxError"]>>

RECURSIVE ParseLines(_)
ParseLines(toks) ==
    IF toks = <<>> THEN <<>>
    ELSE IF toks[1].t = "NEWLINE" THEN ParseLines(Tail(toks))
    ELSE LET line == LogicalLine(toks)
         IN  ParseLine(line) \o ParseLines(SubSeqFrom(toks, Len(line) + 1))

\* the Module, or NoneNode when ast.parse raises SyntaxError
ast_parse(code) ==
    LET toks == Lex(code)
        body == ParseLines(toks)
    IN  IF \E i \in 1..Len(toks) : toks[i].t = "ERROR" THEN NoneNode
        ELSE IF \E i \in 1..Len(body) : body[i].kind = "SyntaxError" THEN NoneNode
        ELSE Module(body)

python_to_smt(code) ==
    LET stripped == remove_comments(code)
        tree == ast_parse(stripped)
    IN  IF tree.kind = "NoneType" THEN Raises("SyntaxError") ELSE convert(tree)

(***************************************************************************)
(* The trees handed to convert.  A tree is built by wrapping: a leaf is    *)
(* wrapped by an expression node while its expression depth is below       *)
(* MaxExprDepth, then by statement nodes, then by a Module, while the      *)
(* depth of the whole tree stays within MaxDepth; the other children of a  *)
(* wrapping node are fixed small nodes.                                    *)
(***************************************************************************)
Op(k) == [kind |-> k]

BinOp(l, o, r) == [kind |-> "BinOp", left |-> l, op |-> Op(o), right |-> r]

Compare(l, os, cs) ==
    [kind |-> "Compare", left |-> l,
     ops |-> [i \in 1..Len(os) |-> Op(os[i])], comparators |-> cs]

BoolOp(o, vs) == [kind |-> "BoolOp", op |-> Op(o), values |-> vs]

UnaryOp(o, e) == [kind |-> "UnaryOp", op |-> Op(o), operand |-> e]

Assign(ts, v) == [kind |-> "Assign", targets |-> ts, value |-> v]

Return(v) == [kind |-> "Return", value |-> v]

If(t, b, e) == [kind |-> "If", test |-> t, body |-> b, orelse |-> e]

FunctionDef(nm, as, b) ==
    [kind |-> "FunctionDef", name |-> nm, args |-> as, body |-> b]

X == Name(<<"x">>)

Y == Name(<<"y">>)

NextStmt == Return(NoneNode)

UnaryOps == {"Not", "USub", "UAdd", "Invert"}

ExprKinds == {"BinOp", "Compare", "BoolOp", "UnaryOp", "Name", "NameConstant",
              "Num", "Str", "Call"}

StmtKinds == {"FunctionDef", "Assign", "If", "Expr", "Return", "For"}

\* leaves that the wrapping steps build on
SpineLeaves ==
    {X, [kind |-> "Call"], [kind |-> "For"], Return(NoneNode)}

\* leaves that are converted on their own
TopLeaves ==
    {Name(<<"T", "r", "u", "e">>), Name(<<"f", "A", "L", "S", "E">>),
     NameConstant("None"), Num(0), Num(305), Str(<<"a", " ", "b">>), NoneNode}
    \cup {Op(k) : k \in {"Mult", "Div", "Mod", "Lt", "NotEq"}}

RECURSIVE MaxOf(_)
MaxOf(ds) ==
    IF ds = <<>> THEN 0
    ELSE IF Head(ds) > MaxOf(Tail(ds)) THEN Head(ds) ELSE MaxOf(Tail(ds))

\* the nesting depth of an expression
RECURSIVE ExprDepth(_)
ExprDepth(n) ==
    CASE n.kind = "BinOp" -> 1 + MaxOf(<<ExprDepth(n.left), ExprDepth(n.right)>>)
      [] n.kind = "Compare" ->
            1 + MaxOf(<<ExprDepth(n.left)>>
                      \o [i \in 1..Len(n.comparators) |-> ExprDepth(n.comparators[i])])
      [] n.kind = "BoolOp" ->
            1 + MaxOf([i \in 1..Len(n.values) |-> ExprDepth(n.values[i])])
      [] n.kind = "UnaryOp" -> 1 + ExprDepth(n.operand)
      [] OTHER -> 1

\* the nesting depth of a tree
RECURSIVE Depth(_)
Depth(n) ==
    CASE n.kind = "NoneType" -> 0
      [] n.kind = "Module" -> 1 + MaxOf([i \in 1..Len(n.body) |-> Depth(n.body[i])])
      [] n.kind = "If" ->
            1 + MaxOf(<<Depth(n.test)>>
                      \o [i \in 1..Len(n.body) |-> Depth(n.body[i])]
                      \o [i \in 1..Len(n.orelse) |-> Depth(n.orelse[i])])
      [] n.kind = "FunctionDef" ->
            1 + MaxOf([i \in 1..Len(n.body) |-> Depth(n.body[i])])
      [] n.kind = "Assign" ->
            1 + MaxOf(<<Depth(n.value)>>
                      \o [i \in 1..Len(n.targets) |-> Depth(n.targets[i])])
      [] n.kind \in {"Return", "Expr"} -> 1 + Depth(n.value)
      [] OTHER -> ExprDepth(n)

WrapExpr(e) ==
    {BinOp(e, "Add", Y), BinOp(e, "Pow", Y), BinOp(Y, "Sub", e)}
    \cup {Compare(e, <<o>>, <<Y>>) : o \in {"NotEq", "In"}}
    \cup {Compare(e, os, <<Y, X>>) :
            os \in {<<"NotEq", "GtE">>, <<"In", "NotEq">>, <<"LtE", "Gt">>}}
    \cup {Compare(Y, <<"Eq", "NotEq">>, <<X, e>>)}
    \cup {BoolOp("Or", <<e, Y>>), BoolOp("BitAnd", <<e, Y>>), BoolOp("And", <<Y, X, e>>)}
    \cup {UnaryOp(o, e) : o \in UnaryOps}

ExprToStmt(e) ==
    {Return(e), Assign(<<X>>, e), Assign(<<X, Y>>, e), If(e, <<NextStmt>>, <<>>)}

WrapStmt(s) ==
    {If(X, <<s>>, <<>>), If(X, <<NextStmt>>, <<s>>),
     If(X, <<s, NextStmt>>, <<NextStmt, NextStmt>>),
     FunctionDef(<<"f">>, <<>>, <<s>>),
     FunctionDef(<<"f">>, <<<<"x">>, <<"y">>>>, <<s, NextStmt>>),
     Module(<<s, NextStmt>>)}

\* the trees one construction step away from n
Wrap(n) ==
    {t \in (IF n \in TopLeaves THEN {}
            ELSE IF n.kind \in ExprKinds
            THEN (IF ExprDepth(n) < MaxExprDepth THEN WrapExpr(n) ELSE {})
                 \cup ExprToStmt(n)
            ELSE IF n.kind \in StmtKinds THEN WrapStmt(n)
            ELSE {}) : Depth(t) <= MaxDepth}

(***************************************************************************)
(* The texts handed to remove_comments and python_to_smt: the text of the  *)
(* previous call extended by one lexeme, at most MaxLexemes in all.        *)
(***************************************************************************)
Lexemes ==
    {<<"T", "r", "u", "e">>, <<"T", "R", "U", "E">>, <<"t", "r", "u", "e">>,
     <<"t", "r", "u", "e", "V", "a", "l", "u", "e">>, <<"F", "a", "l", "s", "e">>,
     <<"#">>, <<"\"">>, <<"\n">>}

\* the number of lexemes of a text
RECURSIVE LexemeCount(_)
LexemeCount(s) ==
    IF s = <<>> THEN 0
    ELSE IF \E l \in Lexemes : Len(l) > 1 /\ Len(l) <= Len(s) /\ SubSeq(s, 1, Len(l)) = l
    THEN LET l == CHOOSE m \in Lexemes :
                    /\ Len(m) > 1 /\ Len(m) <= Len(s) /\ SubSeq(s, 1, Len(m)) = m
                    /\ \A k \in Lexemes :
                          (Len(k) <= Len(s) /\ SubSeq(s, 1, Len(k)) = k) => Len(k) <= Len(m)
         IN  1 + LexemeCount(SubSeqFrom(s, Len(l) + 1))
    ELSE 1 + LexemeCount(Tail(s))

(***************************************************************************)
(* The converter: its state is return_type; call, py_code, node and result *)
(* record the last method call, its arguments and its outcome.             *)
(***************************************************************************)
Sorts == {<<"I", "n", "t">>, <<"B", "o", "o", "l">>}

\* __init__
Init ==
    /\ return_type \in Sorts
    /\ call = "__init__"
    /\ py_code = <<>>
    /\ node = NoneNode
    /\ result = NoCall

\* convert(t): t a leaf, the tree of the last call again, or that tree wrapped
Convert ==
    \E t \in SpineLeaves \cup TopLeaves \cup {node} \cup Wrap(node) :
        /\ call' = "convert"
        /\ node' = t
        /\ py_code' = <<>>
        /\ result' = convert(t)
        /\ UNCHANGED return_type

\* remove_comments(c)
RemoveComments ==
    \E l \in Lexemes \cup {<<>>} :
        /\ LexemeCount(py_code \o l) <= MaxLexemes
        /\ call' = "remove_comments"
        /\ py_code' = py_code \o l
        /\ node' = NoneNode
        /\ result' = Ok(remove_comments(py_code \o l))
        /\ UNCHANGED return_type

\* python_to_smt storing a sort of its own in the converter
PythonToSmt_StoresSort ==
    \E l \in Lexemes \cup {<<>>} :
        /\ LexemeCount(py_code \o l) <= MaxLexemes
        /\ call' = "python_to_smt"
        /\ py_code' = py_code \o l
        /\ node' = ast_parse(remove_comments(py_code \o l))
        /\ result' = python_to_smt(py_code \o l)
        /\ return_type' = <<"I", "n", "t">>

\* python_to_smt(c); node is its local tree
PythonToSmt ==
    \E l \in Lexemes \cup {<<>>} :
        /\ LexemeCount(py_code \o l) <= MaxLexemes
        /\ call' = "python_to_smt"
        /\ py_code' = py_code \o l
        /\ node' = ast_parse(remove_comments(py_code \o l))
        /\ result' = python_to_smt(py_code \o l)
        /\ UNCHANGED return_type

Next == Convert \/ RemoveComments \/ PythonToSmt

Spec == Init /\ [][Next]_vars

(***************************************************************************)
(* Text predicates used to state the properties.                           *)
(***************************************************************************)
StartsWith(s, p) == Len(p) <= Len(s) /\ SubSeq(s, 1, Len(p)) = p

EndsWith(s, p) == Len(p) <= Len(s) /\ SubSeq(s, Len(s) - Len(p) + 1, Len(s)) = p

Contains(s, p) ==
    \E i \in 1..(Len(s) - Len(p) + 1) : SubSeq(s, i, i + Len(p) - 1) = p

IsSpace(c) == c \in {" ", "\n"}

ParenStep(c) == IF c = "(" THEN 1 ELSE IF c = ")" THEN 0 - 1 ELSE 0

\* for each index k of i..j, the parenthesis depth before s[k], d0 being the
\* depth before s[i]
RECURSIVE DepthsFrom(_, _, _, _)
DepthsFrom(s, i, j, d0) ==
    IF i > j THEN <<>>
    ELSE IF i = j THEN <<d0>>
    ELSE LET m == (i + j) \div 2
             left == DepthsFrom(s, i, m, d0)
         IN  left \o DepthsFrom(s, m + 1, j, left[Len(left)] + ParenStep(s[m]))

\* the parenthesis depth before each character of s
DepthsBefore(s) == DepthsFrom(s, 1, Len(s), 0)

\* no prefix of s closes more than it opens, and s closes all it opens
Balanced(s) ==
    LET d == DepthsBefore(s)
    IN  /\ \A i \in 1..Len(s) : d[i] + ParenStep(s[i]) >= 0
        /\ (s # <<>> => d[Len(s)] + ParenStep(s[Len(s)]) = 0)

\* the index of the parenthesis that closes the one at index i, 0 when none does
MatchClose(s, i) ==
    LET d == DepthsBefore(s)
        closers == {j \in (i + 1)..Len(s) : s[j] = ")" /\ d[j] = d[i] + 1}
    IN  IF closers = {} THEN 0
        ELSE CHOOSE j \in closers : \A k \in closers : j <= k

\* the number of whitespace-separated fragments directly inside the group
\* that opens at s[1]: an atom, or a parenthesized group, counts once
TopFragments(s) ==
    LET d == DepthsBefore(s)
    IN  Cardinality({i \in 2..Len(s) :
            /\ d[i] = 1 /\ ~IsSpace(s[i]) /\ s[i] # ")"
            /\ (i = 2 \/ IsSpace(s[i - 1]))})

RECURSIVE SeqSet(_)
SeqSet(q) == IF q = <<>> THEN {} ELSE {Head(q)} \cup SeqSet(Tail(q))

RECURSIVE UnionOver(_)
UnionOver(q) == IF q = <<>> THEN {} ELSE Head(q) \cup UnionOver(Tail(q))

\* every node of the tree n, operator nodes included
RECURSIVE SubNodes(_)
SubNodes(n) ==
    {n} \cup
    CASE n.kind \in {"Module"} -> UnionOver([i \in 1..Len(n.body) |-> SubNodes(n.body[i])])
      [] n.kind = "FunctionDef" ->
            UnionOver([i \in 1..Len(n.body) |-> SubNodes(n.body[i])])
      [] n.kind = "Assign" ->
            SubNodes(n.value)
            \cup UnionOver([i \in 1..Len(n.targets) |-> SubNodes(n.targets[i])])
      [] n.kind = "BinOp" -> SubNodes(n.left) \cup {n.op} \cup SubNodes(n.right)
      [] n.kind = "Compare" ->
            SubNodes(n.left) \cup SeqSet(n.ops)
            \cup UnionOver([i \in 1..Len(n.comparators) |-> SubNodes(n.comparators[i])])
      [] n.kind = "If" ->
            SubNodes(n.test)
            \cup UnionOver([i \in 1..Len(n.body) |-> SubNodes(n.body[i])])
            \cup UnionOver([i \in 1..Len(n.orelse) |-> SubNodes(n.orelse[i])])
      [] n.kind \in {"Expr", "Return"} -> SubNodes(n.value)
      [] n.kind = "BoolOp" ->
            {n.op} \cup UnionOver([i \in 1..Len(n.values) |-> SubNodes(n.values[i])])
      [] n.kind = "UnaryOp" -> {n.op} \cup SubNodes(n.operand)
      [] OTHER -> {}

Kinds(n) == {m.kind : m \in SubNodes(n)}

Sentinel(kind) ==
    <<"U", "N", "K", "N", "O", "W", "N", "_", "T", "Y", "P", "E", "_">> \o TypeName(kind)

(***************************************************************************)
(* Properties.                                                             *)
(***************************************************************************)
HasNotEq(n) == \E i \in 1..Len(n.ops) : n.ops[i].kind = "NotEq"

ConvertedCompareWithNotEq ==
    call = "convert" /\ node.kind = "Compare" /\ HasNotEq(node) /\ result.k = "str"

ConvertedIf == call = "convert" /\ node.kind = "If" /\ result.k = "str"

UnrecognizedKinds == {"For", "Call", "Pow", "In"}

\* C3 as stated: when convert returns text for a tree that holds an
\* unrecognized node kind or operator node anywhere, the text contains
\* UNKNOWN_TYPE_<kind name> for it.
C3_SentinelOrRaise ==
    (call = "convert" /\ result.k = "str") =>
        \A k \in Kinds(node) \cap UnrecognizedKinds : Contains(result.s, Sentinel(k))

UnrecognizedOp(n) ==
    \/ n.kind = "BoolOp" /\ n.op.kind \notin {"And", "Or"}
    \/ n.kind = "UnaryOp" /\ n.op.kind \notin {"Not", "USub"}

\* C4 as stated: a tree holding a BoolOp or UnaryOp with an unrecognized
\* operator is converted without raising, to text that names the operator.
C4_OperatorSentinel ==
    call = "convert" =>
        \A m \in SubNodes(node) :
            UnrecognizedOp(m) =>
                result.k = "str" /\ Contains(result.s, TypeName(m.op.kind))

IsIdentifier(c) == c # <<>> /\ \A i \in 1..Len(c) : IsNameChar(c[i])

\* C5 as stated: a source identifier that spells true or false in any case
\* translates to true or false, any other identifier to itself.
C5_CaseInsensitiveLiterals ==
    (call = "python_to_smt" /\ IsIdentifier(py_code)) =>
        result = Ok(IF lower(py_code) = <<"t", "r", "u", "e">> THEN <<"t", "r", "u", "e">>
                    ELSE IF lower(py_code) = <<"f", "a", "l", "s", "e">>
                    THEN <<"f", "a", "l", "s", "e">>
                    ELSE py_code)

IsAtomChar(c) == c \notin {"(", ")", " ", "\n", "\""}

\* s[i] opens a group (name sort): one atom, one space, the sort
IsPairAt(s, i, sort) ==
    /\ s[i] = "("
    /\ \E j \in (i + 2)..(Len(s) - Len(sort) - 1) :
          /\ \A k \in (i + 1)..(j - 1) : IsAtomChar(s[k])
          /\ s[j] = " "
          /\ SubSeq(s, j + 1, j + Len(sort)) = sort
          /\ s[j + Len(sort) + 1] = ")"

PairCount(s, sort) == Cardinality({i \in 1..Len(s) : IsPairAt(s, i, sort)})

ConvertedFunctionDef ==
    call = "convert" /\ node.kind = "FunctionDef" /\ result.k = "str"

\* C6 as stated: the text of a FunctionDef with N parameters holds exactly N
\* groups (name sort), whatever its body.
C6_ExactlyNPairs ==
    ConvertedFunctionDef => PairCount(result.s, return_type) = Len(node.args)

\* where the parameter list of the text of FunctionDef n opens
ParamsOpen(n) == Len(<<"(", "d", "e", "f", "i", "n", "e", "-", "f", "u", "n", " ">>)
                 + Len(n.name) + 2

\* C6 amended: the text of a FunctionDef with N parameters begins with
\* (define-fun <name> and then one group, the parameter list, that holds
\* exactly N groups (name sort), one per parameter in the original order,
\* each with the configured sort and separated by one space; the list is
\* followed by the sort.  Groups of that shape may occur again in the body.
C6_ParameterList ==
    ConvertedFunctionDef =>
        LET s == result.s
            o == ParamsOpen(node)
            c == MatchClose(s, o)
            params == SubSeq(s, o + 1, c - 1)
        IN  /\ StartsWith(s, <<"(", "d", "e", "f", "i", "n", "e", "-", "f", "u", "n", " ">>
                             \o node.name \o <<" ", "(">>)
            /\ c > o
            /\ PairCount(params, return_type) = Len(node.args)
            /\ params = Join(<<" ">>, [i \in 1..Len(node.args) |->
                            <<"(">> \o node.args[i] \o <<" ">> \o return_type \o <<")">>])
            /\ SubSeq(s, c + 1, c + 2 + Len(return_type))
                  = <<" ">> \o return_type \o <<" ">>

C6_Witness ==
    /\ ConvertedFunctionDef /\ Len(node.args) = 2
    /\ PairCount(result.s, return_type) = 2

IsElif(n) == n.kind = "If" /\ Len(n.orelse) = 1 /\ n.orelse[1].kind = "If"

\* the text t is one group of s that starts at index o + 1 and is followed
\* by a line break and the text u
GroupThenLine(s, o, t, u) ==
    /\ SubSeq(s, o + 1, o + Len(t)) = t
    /\ MatchClose(s, o + 1) = o + Len(t)
    /\ SubSeq(s, o + Len(t) + 1, o + Len(t) + 1 + Len(u)) = <<"\n">> \o u

\* C7: an If whose orelse is a single If is emitted as (ite T1 B1 (ite T2 B2
\* E2)), the inner ite being the last argument of the outer one and closed
\* just before it; a statement that follows the If in the body of a Module
\* or FunctionDef is emitted after the outer ite's closing parenthesis and a
\* line break.
C7_RightNestedIte ==
    (call = "convert" /\ result.k = "str") =>
        /\ IsElif(node) =>
              LET s == result.s
                  inner == convert(node.orelse[1]).s
                  o == Len(s) - Len(inner)
              IN  /\ StartsWith(s, <<"(", "i", "t", "e", " ">>)
                  /\ StartsWith(inner, <<"(", "i", "t", "e", " ">>)
                  /\ MatchClose(s, 1) = Len(s)
                  /\ SubSeq(s, o, Len(s) - 1) = inner
                  /\ s[o - 1] = " "
                  /\ MatchClose(s, o) = Len(s) - 1
                  /\ TopFragments(s) = 1 + 1 + Len(node.body) + 1
        /\ (node.kind \in {"Module", "FunctionDef"} /\ Len(node.body) = 2
            /\ IsElif(node.body[1])) =>
              LET t == convert(node.body[1]).s
                  u == convert(node.body[2]).s
              IN  \E o \in 0..Len(result.s) : GroupThenLine(result.s, o, t, u)

C7_Witness ==
    /\ call = "convert" /\ result.k = "str"
    /\ node.kind = "Module" /\ Len(node.body) = 2 /\ IsElif(node.body[1])

\* the quotes of line before index i
QuotesBefore(line, i) == Cardinality({j \in 1..(i - 1) : line[j] = "\""})

\* a text without comments: no triple quote, every string literal closed on
\* its line, and every # inside a string literal
NoComments(c) ==
    /\ FindTriple(c, 1) = 0
    /\ \A l \in SeqSet(SplitLines(c)) :
          /\ QuotesBefore(l, Len(l) + 1) % 2 = 0
          /\ \A i \in 1..Len(l) : l[i] = "#" => QuotesBefore(l, i) % 2 = 1

\* C8 as stated: remove_comments returns a text without comments unchanged.
C8_CleanInputUnchanged ==
    (call = "remove_comments" /\ NoComments(py_code)) => result = Ok(py_code)

RecognizedKinds ==
    {"NoneType", "Module", "FunctionDef", "Assign", "BinOp", "Compare", "If",
     "Expr", "Name", "NameConstant", "Num", "Str", "Add", "Sub", "Mult", "Div",
     "Mod", "BoolOp", "UnaryOp", "Eq", "NotEq", "Lt", "LtE", "Gt", "GtE",
     "Return", "And", "Or", "Not", "USub"}

Recognized(n) ==
    \A m \in SubNodes(n) : m.kind \in RecognizedKinds /\ ~UnrecognizedOp(m)

NoParenText(n) ==
    \A m \in SubNodes(n) :
        /\ m.kind = "Name" => \A i \in 1..Len(m.id) : m.id[i] \notin {"(", ")"}
        /\ m.kind = "Str" => \A i \in 1..Len(m.s) : m.s[i] \notin {"(", ")"}
        /\ m.kind = "FunctionDef" =>
              /\ \A i \in 1..Len(m.name) : m.name[i] \notin {"(", ")"}
              /\ \A a \in SeqSet(m.args) : \A i \in 1..Len(a) : a[i] \notin {"(", ")"}

\* C10: a tree of recognized node kinds and operators, without parentheses
\* in its identifiers and constants, is converted to text whose parentheses
\* are balanced.
C10_BalancedParens ==
    (call = "convert" /\ Recognized(node) /\ NoParenText(node)) =>
        result.k = "str" /\ Balanced(result.s)

C10_Witness ==
    /\ call = "convert" /\ Recognized(node) /\ node.kind = "Module"
    /\ \E m \in SubNodes(node) : m.kind = "If" /\ m.orelse = <<>>
    /\ \E m \in SubNodes(node) : m.kind = "Compare" /\ Len(m.ops) = 2
    /\ Balanced(result.s)

====
